---- MODULE Spec2Model ----
(***************************************************************************)
(* Model of packages/api/src/resolvers/discover_feeds/add.ts: the           *)
(* addDiscoverFeed resolver, its two helpers handleExistingSubscription and *)
(* addNewSubscription, the two extractors, and the store they query.        *)
(*                                                                          *)
(* Each await of the resolver is one atomic step of a call; several calls   *)
(* run concurrently against the shared Feed and Subscription tables.        *)
(***************************************************************************)
EXTENDS Integers, Sequences, FiniteSets, TLC

(***************************************************************************)
(* Bounds.                                                                  *)
(***************************************************************************)
\* Number of addDiscoverFeed calls that race in one behaviour.
MaxCalls == 2

\* The calls, and one more for the runs in which a third call looks up what
\* two earlier ones inserted.
Calls == 1..(MaxCalls + 1)

\* The URLs callers ask for and the authenticated user ids (uid).
Links == {"l1", "l2"}
Users == {"u1", "u2"}

(***************************************************************************)
(* JavaScript values: undefined, strings, numbers and objects, tagged by k. *)
(***************************************************************************)
Undefined == [k |-> "undefined"]
Str(s) == [k |-> "string", s |-> s]
Num(n) == [k |-> "number", n |-> n]
Obj(c) == [k |-> "object", c |-> c]

\* The TypeError a property read of undefined raises.
TypeError == [k |-> "throw"]

\* ToBoolean: undefined, "" and 0 are falsy, every object is truthy.
Truthy(v) ==
  CASE v.k = "undefined" -> FALSE
    [] v.k = "string" -> v.s # ""
    [] v.k = "number" -> v.n # 0
    [] OTHER -> TRUE

\* a || b
Or(a, b) == IF Truthy(a) THEN a ELSE b

\* a ?? b: only undefined (or null) is replaced.
Coalesce(a, b) == IF a.k = "undefined" THEN b ELSE a

\* v.f: throws on undefined, is undefined on a primitive or a missing key.
Get(v, f) ==
  CASE v.k = "undefined" -> TypeError
    [] v.k = "object" -> IF f \in DOMAIN v.c THEN v.c[f] ELSE Undefined
    [] OTHER -> Undefined

\* v?.f
OptGet(v, f) == IF v.k = "undefined" THEN Undefined ELSE Get(v, f)

(***************************************************************************)
(* The fetched XML: a tree of elements; a leaf holds its text.              *)
(***************************************************************************)
Absent == [k |-> "absent"]
EmptyEl == [k |-> "empty"]
Text(s) == [k |-> "text", s |-> s]
El(c) == [k |-> "element", c |-> c]

\* parseTagValue: true turns a numeric text into a number.
ParseTagValue(s) == IF s = "0" THEN Num(0) ELSE Str(s)

\* parser.parse on one node: an absent element is a missing key, an empty
\* element is the empty string, a leaf is its (parsed) text.
RECURSIVE ParseNode(_)
ParseNode(n) ==
  CASE n.k = "absent" -> Undefined
    [] n.k = "empty" -> Str("")
    [] n.k = "text" -> ParseTagValue(n.s)
    [] OTHER -> Obj([f \in DOMAIN n.c |-> ParseNode(n.c[f])])

\* A document: its three possible roots. A body that is no XML at all makes
\* the parser throw.
Doc(rss, rdf, feed) == [k |-> "xml", rss |-> rss, rdf |-> rdf, feed |-> feed]
Malformed == [k |-> "malformed"]

\* parser.parse(content): the parsed tree keyed by root name, or a throw.
ParserParse(content) ==
  IF content.k = "malformed" THEN TypeError
  ELSE Obj([rss |-> ParseNode(content.rss),
            rdf |-> ParseNode(content.rdf),
            feed |-> ParseNode(content.feed)])

Channel(title, description) ==
  El([title |-> title, description |-> description])

RssRoot(channel, image) == El([channel |-> channel, image |-> image])

AtomRoot(title, subtitle, icon) ==
  El([title |-> title, subtitle |-> subtitle, icon |-> icon])

ImageEl == El([url |-> Text("img")])

\* The documents a URL may serve.
RssTitled ==
  Doc(RssRoot(Channel(Text("Daily"), Text("News")), ImageEl), Absent, Absent)
RssNoDescription ==
  Doc(RssRoot(Channel(Text("Daily"), Absent), Absent), Absent, Absent)
RssNoTitle ==
  Doc(RssRoot(Channel(Absent, Text("News")), Absent), Absent, Absent)
RssEmptyTitle ==
  Doc(RssRoot(Channel(EmptyEl, Text("News")), Absent), Absent, Absent)
RssZeroTitle ==
  Doc(RssRoot(Channel(Text("0"), Absent), Absent), Absent, Absent)
RssNoChannel == Doc(RssRoot(Absent, ImageEl), Absent, Absent)
RssEmptyRoot == Doc(EmptyEl, Absent, Absent)
RdfTitled ==
  Doc(Absent, RssRoot(Channel(Text("Daily"), Absent), ImageEl), Absent)
RdfNoTitle == Doc(Absent, RssRoot(Channel(Absent, Absent), Absent), Absent)
AtomTitled ==
  Doc(Absent, Absent, AtomRoot(Text("Daily"), Text("News"), Text("img")))
AtomNoSubtitle == Doc(Absent, Absent, AtomRoot(Text("Daily"), Absent, Absent))
AtomNoTitle == Doc(Absent, Absent, AtomRoot(Absent, Text("News"), Absent))
AtomEmptyTitle == Doc(Absent, Absent, AtomRoot(EmptyEl, Absent, Absent))
RssAndAtom ==
  Doc(RssRoot(Channel(Text("Daily"), Absent), Absent), Absent,
      AtomRoot(Text("Other"), Absent, Absent))
EmptyRssAndAtom ==
  Doc(EmptyEl, Absent, AtomRoot(Text("Other"), Absent, Absent))
Html == Doc(Absent, Absent, Absent)

Docs ==
  {RssTitled, RssNoDescription, RssNoTitle, RssEmptyTitle, RssZeroTitle,
   RssNoChannel, RssEmptyRoot, RdfTitled, RdfNoTitle, AtomTitled,
   AtomNoSubtitle, AtomNoTitle, AtomEmptyTitle, RssAndAtom, EmptyRssAndAtom,
   Html, Malformed}

(***************************************************************************)
(* The content-type header: absent, or a string, held as its tokens so that *)
(* String.prototype.includes is a search for a contiguous run of tokens.    *)
(***************************************************************************)
NoHeader == [k |-> "undefined"]
Header(tokens) == [k |-> "string", tokens |-> tokens]

TextRssXml == <<"text", "/", "rss", "+", "xml">>
TextAtomXml == <<"text", "/", "atom", "+", "xml">>
ApplicationXml == <<"application", "/", "xml">>
ApplicationRssXml == <<"application", "/", "rss", "+", "xml">>
ApplicationAtomXml == <<"application", "/", "atom", "+", "xml">>
TextXml == <<"text", "/", "xml">>
TextHtml == <<"text", "/", "html">>
ApplicationJson == <<"application", "/", "json">>
ApplicationXmlCharset == <<"application", "/", "xml", ";", "charset=utf-8">>

ContentTypes ==
  {NoHeader} \cup
  {Header(t) : t \in {TextRssXml, TextAtomXml, ApplicationXml,
                      ApplicationRssXml, ApplicationAtomXml, TextXml,
                      TextHtml, ApplicationJson, ApplicationXmlCharset}}

\* s.includes(t)
Includes(s, t) ==
  \E i \in 0..(Len(s) - Len(t)) : SubSeq(s, i + 1, i + Len(t)) = t

\* contentType?.includes(t): undefined (falsy) when there is no header.
OptIncludes(contentType, t) ==
  IF contentType.k = "undefined" THEN FALSE ELSE Includes(contentType.tokens, t)

\* A looser test: any text/ type passes.
IsXMLAnyTextType(contentType) ==
  \/ OptIncludes(contentType, <<"text", "/">>)
  \/ OptIncludes(contentType, ApplicationXml)

\* The isXML test of addNewSubscription.
IsXML(contentType) ==
  \/ OptIncludes(contentType, TextRssXml)
  \/ OptIncludes(contentType, TextAtomXml)
  \/ OptIncludes(contentType, ApplicationXml)

(***************************************************************************)
(* The extractors and the validation of addNewSubscription.                 *)
(***************************************************************************)
\* extractAtomData(url, feed)
extractAtomData(u, atom) ==
  [description |-> Coalesce(Get(atom, "subtitle"), Str("")),
   title |-> Coalesce(Get(atom, "title"), Str(u)),
   image |-> Get(atom, "icon"),
   link |-> u,
   type |-> "atom"]

\* extractRssData(url, parsedXml): parsedXml.channel.title throws when the
\* channel is missing; the description and the image are read with ?. .
extractRssData(u, parsedXml) ==
  LET channel == Get(parsedXml, "channel")
  IN  IF Get(channel, "title") = TypeError
      THEN TypeError
      ELSE [description |-> Coalesce(OptGet(channel, "description"), Str("")),
            title |-> Coalesce(Get(channel, "title"), Str(u)),
            image |-> OptGet(Get(parsedXml, "image"), "url"),
            link |-> u,
            type |-> "rss"]

BadRequest == "BAD_REQUEST"
Conflict == "CONFLICT"
Unauthorized == "UNAUTHORIZED"

Success(f) == [typename |-> "AddDiscoverFeedSuccess", feed |-> f]
Failure(code) == [typename |-> "AddDiscoverFeedError", errorCodes |-> <<code>>]
Pending == [typename |-> "pending"]

\* The outcome of an extraction step: a returned error result, a thrown
\* exception, or the extracted feed.
Returns(r) == [k |-> "return", result |-> r]
Throws(e) == [k |-> "throw", error |-> e]
Extracted(f) == [k |-> "feed", feed |-> f]

\* Lines 100-131 of addNewSubscription, from the response to the feed.
ValidateResponse(u, resp) ==
  IF ~IsXML(resp.contentType) THEN Returns(Failure(BadRequest))
  ELSE
    LET parsedFeed == ParserParse(resp.data)
    IN  IF parsedFeed = TypeError THEN Throws("parser")
        ELSE
          LET rss == Get(parsedFeed, "rss")
              rdf == Get(parsedFeed, "rdf")
              atom == Get(parsedFeed, "feed")
          IN  IF ~Truthy(rss) /\ ~Truthy(rdf) /\ ~Truthy(atom)
              THEN Returns(Failure(BadRequest))
              ELSE
                LET f == IF Truthy(Or(rss, rdf))
                         THEN extractRssData(u, Or(rss, rdf))
                         ELSE extractAtomData(u, atom)
                IN  IF f = TypeError THEN Throws("type_error")
                    ELSE IF ~Truthy(f.title)
                         THEN Returns(Failure(BadRequest))
                         ELSE Extracted(f)

Response(contentType, data) ==
  [k |-> "response", contentType |-> contentType, data |-> data]
NoResponse == [k |-> "none"]

\* What axios.get may resolve with.
Responses == {Response(ct, d) : ct \in ContentTypes, d \in Docs}

(***************************************************************************)
(* The store: the discover_feed and discover_feed_subscription tables and   *)
(* the four statements the resolver issues.                                 *)
(***************************************************************************)
VARIABLES
  feeds,           \* omnivore.discover_feed, in insertion order
  subs,            \* omnivore.discover_feed_subscription, in insertion order
  pairUnique,      \* whether the subscription table enforces (feed_id, user_id)
  served,          \* the responses the requested URLs may answer with
  callLimit,       \* how many calls the callers make
  nextId,          \* the uuids v4() has handed out so far
  pc,              \* where each call stands
  url,             \* input.url of each call
  uid,             \* the caller of each call
  conn,            \* each call's queryRunner
  response,        \* the response axios.get gave the call
  feed,            \* existingFeed.rows[0], or the extracted feed
  discoverFeedId,  \* the id the call drew for its new feed
  result,          \* what addNewSubscription returned to the resolver
  err,             \* the error the resolver's catch received
  returned,        \* what the resolver returned
  events,          \* the entityCreated events each call published
  inserted         \* how many rows the INSERTs of each call have added

vars ==
  <<feeds, subs, pairUnique, served, callLimit, nextId, pc, url, uid, conn,
    response, feed, discoverFeedId, result, err, returned, events,
    inserted>>

\* What no step of a call changes: the schema, the web and the callers.
setting == <<pairUnique, served, callLimit>>

\* The SELECT with a WHERE clause that matches no row.
SelectFeedIdNeverMatches(table, link) == <<>>

\* The SELECT without its WHERE clause.
SelectFeedIdOfAnyLink(table, link) ==
  [i \in 1..Len(table) |-> [id |-> table[i].id]]

\* SELECT id from omnivore.discover_feed where link = $1
SelectFeedIdByLink(table, link) ==
  LET hits == SelectSeq(table, LAMBDA r : r.link = link)
  IN  [i \in 1..Len(hits) |-> [id |-> hits[i].id]]

\* SELECT * FROM omnivore.discover_feed_subscription
\*   WHERE user_id = $1 and feed_id = $2
SelectSubscription(table, params) ==
  SelectSeq(table, LAMBDA r : r.user_id = params[1] /\ r.feed_id = params[2])

\* The row of INSERT INTO discover_feed_subscription(feed_id, user_id)
\* VALUES($1, $2), as handleExistingSubscription binds it.
ExistingSubscriptionRow(params) ==
  [feed_id |-> params[1], user_id |-> params[2]]

\* The same INSERT bound to another id than the one the feed was given.
NewSubscriptionRowOtherId(params) ==
  [feed_id |-> params[2] + 1, user_id |-> params[1]]

\* The row of INSERT INTO discover_feed_subscription(feed_id, user_id)
\* VALUES($2, $1), as addNewSubscription binds it.
NewSubscriptionRow(params) ==
  [feed_id |-> params[2], user_id |-> params[1]]

\* The same INSERT with the link and the type bound to each other's column.
FeedRowLinkAndTypeSwapped(params) ==
  [id |-> params[1], title |-> params[2], link |-> params[5],
   image |-> params[4], type |-> params[3], description |-> params[6]]

\* The row of INSERT INTO discover_feed(id, title, link, image, type,
\* description) VALUES($1, ..., $6).
FeedRow(params) ==
  [id |-> params[1], title |-> params[2], link |-> params[3],
   image |-> params[4], type |-> params[5], description |-> params[6]]

\* The unique constraint on discover_feed.link.
LinkTaken(table, row) == \E i \in 1..Len(table) : table[i].link = row.link

\* A subscription table that accepts every row.
PairNeverTaken(table, row) == FALSE

\* The unique constraint on discover_feed_subscription(feed_id, user_id).
PairTaken(table, row) ==
  pairUnique /\ \E i \in 1..Len(table) : table[i] = row

\* existingSubscription.rows > 1: the array is converted to a number through
\* its string, "" for no row and "[object Object],..." otherwise.
NaN == [k |-> "nan"]
ArrayToNumber(rows) == IF Len(rows) = 0 THEN Num(0) ELSE NaN
GreaterThan(v, n) == v.k = "number" /\ v.n > n
RowsGreaterThanOne(rows) == GreaterThan(ArrayToNumber(rows), 1)

(***************************************************************************)
(* The initial state: empty tables, no call made yet.                       *)
(***************************************************************************)
NoFeed == [k |-> "none"]
NoConnection == [acquired |-> FALSE, releases |-> 0]

InitCalls ==
  /\ feeds = <<>>
  /\ subs = <<>>
  /\ nextId = 0
  /\ pc = [c \in Calls |-> "idle"]
  /\ url = [c \in Calls |-> "l1"]
  /\ uid = [c \in Calls |-> "u1"]
  /\ conn = [c \in Calls |-> NoConnection]
  /\ response = [c \in Calls |-> NoResponse]
  /\ feed = [c \in Calls |-> NoFeed]
  /\ discoverFeedId = [c \in Calls |-> 0]
  /\ result = [c \in Calls |-> Pending]
  /\ err = [c \in Calls |-> "none"]
  /\ returned = [c \in Calls |-> Pending]
  /\ events = [c \in Calls |-> <<>>]
  /\ inserted = [c \in Calls |-> 0]

\* The responses of the concurrent runs: a titled feed, a titled feed
\* declared as HTML, and a body the parser rejects.
FewResponses ==
  {Response(Header(ApplicationXml), RssTitled),
   Response(Header(TextHtml), RssTitled),
   Response(Header(ApplicationXml), Malformed)}

\* Both uniqueness constraints of the schema are in force; the calls race
\* on URLs that answer with one of FewResponses.
Init ==
  /\ InitCalls
  /\ pairUnique = TRUE
  /\ served = FewResponses
  /\ callLimit = MaxCalls

\* The same on a subscription table without its uniqueness constraint, with
\* one more call.
InitNoPairConstraint ==
  /\ InitCalls
  /\ pairUnique = FALSE
  /\ served = FewResponses
  /\ callLimit = MaxCalls + 1

\* A first call and a repeat against URLs that answer with one response,
\* whichever it is.
InitAnyResponse ==
  /\ InitCalls
  /\ pairUnique = TRUE
  /\ served \in {{r} : r \in Responses}
  /\ callLimit = 2

(***************************************************************************)
(* The resolver, one action per await.                                      *)
(***************************************************************************)
\* A catch that answers with BadRequest.
CatchAsBadRequest(c, e) ==
  /\ err' = [err EXCEPT ![c] = e]
  /\ returned' = [returned EXCEPT ![c] = Failure(BadRequest)]
  /\ pc' = [pc EXCEPT ![c] = "done"]

\* A catch that logs the error and throws it again.
CatchRethrows(c, e) ==
  /\ err' = [err EXCEPT ![c] = e]
  /\ returned' = [returned EXCEPT ![c] = [typename |-> "exception"]]
  /\ pc' = [pc EXCEPT ![c] = "done"]

\* The catch of addDiscoverFeedResolver: every thrown error is logged and
\* answered with Unauthorized.
Catch(c, e) ==
  /\ err' = [err EXCEPT ![c] = e]
  /\ returned' = [returned EXCEPT ![c] = Failure(Unauthorized)]
  /\ pc' = [pc EXCEPT ![c] = "done"]

\* A return of the resolver.
Return(c, r) ==
  /\ returned' = [returned EXCEPT ![c] = r]
  /\ pc' = [pc EXCEPT ![c] = "done"]
  /\ err' = err

\* A release that hands the connection back twice.
ReleaseTwice(c) == conn' = [conn EXCEPT ![c].releases = @ + 2]

\* queryRunner.release()
Release(c) == conn' = [conn EXCEPT ![c].releases = @ + 1]

\* The call arrives and awaits createQueryRunner().connect().
Connect(c) ==
  /\ pc[c] = "idle"
  /\ c <= callLimit
  \* calls are numbered as they arrive
  /\ IF c = 1 THEN TRUE ELSE pc[c - 1] # "idle"
  /\ \E u \in Links, user \in Users, connected \in BOOLEAN :
       /\ url' = [url EXCEPT ![c] = u]
       /\ uid' = [uid EXCEPT ![c] = user]
       /\ IF connected
          THEN /\ conn' = [conn EXCEPT ![c].acquired = TRUE]
               /\ pc' = [pc EXCEPT ![c] = "lookupFeed"]
               /\ UNCHANGED <<err, returned>>
          ELSE /\ Catch(c, "connect")
               /\ UNCHANGED conn
  /\ UNCHANGED <<feeds, subs, inserted, setting, nextId, response, feed,
                 discoverFeedId, result, events>>

\* SELECT id from discover_feed where link = url, and the branch on it.
LookupFeed(c) ==
  /\ pc[c] = "lookupFeed"
  /\ \E storeError \in BOOLEAN :
       IF storeError
       THEN Catch(c, "store") /\ UNCHANGED feed
       ELSE LET existingFeed == SelectFeedIdByLink(feeds, url[c])
            IN  IF Len(existingFeed) > 0
                THEN /\ feed' = [feed EXCEPT ![c] = existingFeed[1]]
                     /\ pc' = [pc EXCEPT ![c] = "findSubscription"]
                     /\ UNCHANGED <<err, returned>>
                ELSE /\ pc' = [pc EXCEPT ![c] = "fetch"]
                     /\ UNCHANGED <<feed, err, returned>>
  /\ UNCHANGED <<feeds, subs, inserted, setting, nextId, url, uid, conn, response,
                 discoverFeedId, result, events>>

\* handleExistingSubscription: the SELECT of the caller's subscriptions to
\* the feed and the conflict test on it.
FindSubscription(c) ==
  /\ pc[c] = "findSubscription"
  /\ \E storeError \in BOOLEAN :
       IF storeError
       THEN Catch(c, "store") /\ UNCHANGED conn
       ELSE LET existingSubscription ==
                  SelectSubscription(subs, <<uid[c], feed[c].id>>)
            IN  IF RowsGreaterThanOne(existingSubscription)
                THEN /\ Release(c)
                     /\ Return(c, Failure(Conflict))
                ELSE /\ pc' = [pc EXCEPT ![c] = "insertExisting"]
                     /\ UNCHANGED <<conn, err, returned>>
  /\ UNCHANGED <<feeds, subs, inserted, setting, nextId, url, uid, response, feed,
                 discoverFeedId, result, events>>

\* handleExistingSubscription: the INSERT of the subscription and the
\* success it returns.
InsertExistingSubscription(c) ==
  /\ pc[c] = "insertExisting"
  /\ \E storeError \in BOOLEAN :
       LET row == ExistingSubscriptionRow(<<feed[c].id, uid[c]>>)
       IN  IF storeError
           THEN Catch(c, "store") /\ UNCHANGED <<subs, inserted>>
           ELSE IF PairTaken(subs, row)
                THEN Catch(c, "unique_pair") /\ UNCHANGED <<subs, inserted>>
                ELSE /\ subs' = Append(subs, row)
                     /\ inserted' = [inserted EXCEPT ![c] = @ + 1]
                     /\ Return(c, Success(feed[c]))
  /\ UNCHANGED <<feeds, setting, nextId, url, uid, conn, response, feed,
                 discoverFeedId, result, events>>

\* addNewSubscription: axios.get, the content-type test, the parse, the
\* extraction, the title test and the draw of the new feed's id.
Fetch(c) ==
  /\ pc[c] = "fetch"
  /\ \E networkError \in BOOLEAN, resp \in served :
       IF networkError
       THEN /\ Catch(c, "network")
            /\ UNCHANGED <<response, feed, discoverFeedId, nextId>>
       ELSE LET outcome == ValidateResponse(url[c], resp)
            IN  /\ response' = [response EXCEPT ![c] = resp]
                /\ CASE outcome.k = "return" ->
                          /\ Return(c, outcome.result)
                          /\ UNCHANGED <<feed, discoverFeedId, nextId>>
                     [] outcome.k = "throw" ->
                          /\ Catch(c, outcome.error)
                          /\ UNCHANGED <<feed, discoverFeedId, nextId>>
                     [] OTHER ->
                          /\ feed' = [feed EXCEPT ![c] = outcome.feed]
                          /\ discoverFeedId' =
                               [discoverFeedId EXCEPT ![c] = nextId + 1]
                          /\ nextId' = nextId + 1
                          /\ pc' = [pc EXCEPT ![c] = "insertFeed"]
                          /\ UNCHANGED <<err, returned>>
  /\ UNCHANGED <<feeds, subs, inserted, setting, url, uid, conn, result, events>>

\* addNewSubscription: the INSERT of the feed.
InsertFeed(c) ==
  /\ pc[c] = "insertFeed"
  /\ \E storeError \in BOOLEAN :
       LET row == FeedRow(<<discoverFeedId[c], feed[c].title, feed[c].link,
                            feed[c].image, feed[c].type,
                            feed[c].description>>)
       IN  IF storeError
           THEN Catch(c, "store") /\ UNCHANGED <<feeds, inserted>>
           ELSE IF LinkTaken(feeds, row)
                THEN Catch(c, "unique_link") /\ UNCHANGED <<feeds, inserted>>
                ELSE /\ feeds' = Append(feeds, row)
                     /\ inserted' = [inserted EXCEPT ![c] = @ + 1]
                     /\ pc' = [pc EXCEPT ![c] = "insertNew"]
                     /\ UNCHANGED <<err, returned>>
  /\ UNCHANGED <<subs, setting, nextId, url, uid, conn, response, feed,
                 discoverFeedId, result, events>>

\* The feed addNewSubscription returns: { ...feed, id: discoverFeedId }.
WithId(f, id) ==
  [id |-> id, title |-> f.title, link |-> f.link, image |-> f.image,
   type |-> f.type, description |-> f.description]

\* addNewSubscription: the INSERT of the subscription, the release and the
\* success handed back to the resolver.
InsertNewSubscription(c) ==
  /\ pc[c] = "insertNew"
  /\ \E storeError \in BOOLEAN :
       LET row == NewSubscriptionRow(<<uid[c], discoverFeedId[c]>>)
       IN  IF storeError
           THEN /\ Catch(c, "store")
                /\ UNCHANGED <<subs, conn, result, inserted>>
           ELSE IF PairTaken(subs, row)
                THEN /\ Catch(c, "unique_pair")
                     /\ UNCHANGED <<subs, conn, result, inserted>>
                ELSE /\ subs' = Append(subs, row)
                     /\ inserted' = [inserted EXCEPT ![c] = @ + 1]
                     /\ Release(c)
                     /\ result' =
                          [result EXCEPT
                             ![c] = Success(WithId(feed[c], discoverFeedId[c]))]
                     /\ pc' = [pc EXCEPT ![c] = "publish"]
                     /\ UNCHANGED <<err, returned>>
  /\ UNCHANGED <<feeds, setting, nextId, url, uid, response, feed,
                 discoverFeedId, events>>

\* The event published under another entity type.
EntityCreatedAsPage(f, owner) ==
  [type |-> "PAGE", feed |-> f, libraryItemId |-> "NA", owner |-> owner]

\* The event of pubsub.entityCreated(RSS_FEED, {feed, libraryItemId}, uid).
EntityCreated(f, owner) ==
  [type |-> "RSS_FEED", feed |-> f, libraryItemId |-> "NA", owner |-> owner]

\* The resolver after a successful addNewSubscription: the publish, then
\* the return of the result.
Publish(c) ==
  /\ pc[c] = "publish"
  /\ \E published \in BOOLEAN :
       IF published
       THEN /\ events' =
                 [events EXCEPT
                    ![c] = Append(@, EntityCreated(result[c].feed, uid[c]))]
            /\ Return(c, result[c])
       ELSE /\ Catch(c, "publish")
            /\ UNCHANGED events
  /\ UNCHANGED <<feeds, subs, inserted, setting, nextId, url, uid, conn, response,
                 feed, discoverFeedId, result>>

Step(c) ==
  \/ Connect(c)
  \/ LookupFeed(c)
  \/ FindSubscription(c)
  \/ InsertExistingSubscription(c)
  \/ Fetch(c)
  \/ InsertFeed(c)
  \/ InsertNewSubscription(c)
  \/ Publish(c)

Next == \E c \in Calls : Step(c)

Spec == Init /\ [][Next]_vars

SpecNoPairConstraint == InitNoPairConstraint /\ [][Next]_vars

SpecAnyResponse == InitAnyResponse /\ [][Next]_vars

(***************************************************************************)
(* Vocabulary of the properties.                                            *)
(***************************************************************************)
Done(c) == pc[c] = "done"
Succeeded(c) == Done(c) /\ returned[c].typename = "AddDiscoverFeedSuccess"
Failed(c, code) == Done(c) /\ returned[c] = Failure(code)

FeedRowsWithLink(l) == {i \in 1..Len(feeds) : feeds[i].link = l}
SubscriptionRows(user, id) ==
  {i \in 1..Len(subs) : subs[i].user_id = user /\ subs[i].feed_id = id}
FeedIds == {feeds[i].id : i \in 1..Len(feeds)}

\* A content type that indicates rss+xml, atom+xml or generic xml.
IndicatesXml(contentType) ==
  /\ contentType.k = "string"
  /\ \/ Includes(contentType.tokens, <<"rss", "+", "xml">>)
     \/ Includes(contentType.tokens, <<"atom", "+", "xml">>)
     \/ Includes(contentType.tokens, <<"/", "xml">>)

\* A feed document (one with an rss, rdf:RDF or feed root) that has no
\* usable title: no channel, no title element, or an empty one.
NoUsableTitle(node) == node.k \in {"absent", "empty"}
LacksUsableTitle(d) ==
  /\ d.k = "xml"
  /\ LET root == IF d.rss.k # "absent" THEN d.rss
                 ELSE IF d.rdf.k # "absent" THEN d.rdf ELSE d.feed
         isRss == d.rss.k # "absent" \/ d.rdf.k # "absent"
     IN  /\ root.k # "absent"
         /\ IF root.k # "element" THEN TRUE
            ELSE IF isRss
                 THEN \/ root.c.channel.k # "element"
                      \/ NoUsableTitle(root.c.channel.c.title)
                 ELSE NoUsableTitle(root.c.title)

\* The titled, well-formed feeds among the documents.
TitledFeeds == {RssTitled, RssNoDescription, RdfTitled, AtomTitled, AtomNoSubtitle}

Fetched(c) == response[c].k = "response"

(***************************************************************************)
(* C1. Dedup invariant: the Feed table never holds two rows with the same   *)
(* link, and holds exactly one row with link L once a call on L has         *)
(* returned success.                                                        *)
(***************************************************************************)
C1_DedupInvariant ==
  \A l \in Links :
    /\ Cardinality(FeedRowsWithLink(l)) <= 1
    /\ (\E c \in Calls : Succeeded(c) /\ url[c] = l)
         => Cardinality(FeedRowsWithLink(l)) = 1

\* Two calls raced on one new link: one returned success, the insert of the
\* other hit the unique constraint.
C1_Witness ==
  \E c, d \in Calls :
    /\ c # d /\ url[c] = url[d]
    /\ Succeeded(c)
    /\ Done(d) /\ err[d] = "unique_link"

(***************************************************************************)
(* C2. Every call that acquired a connection has released it by the time    *)
(* it returns, on every exit path.                                          *)
(***************************************************************************)
C2_ReleasedOnEveryExit ==
  \A c \in Calls : Done(c) /\ conn[c].acquired => conn[c].releases >= 1

(***************************************************************************)
(* C3. A call whose feed insert violates the unique constraint on link      *)
(* returns a failure with code Conflict.                                    *)
(***************************************************************************)
C3_FeedRaceIsConflict ==
  \A c \in Calls : Done(c) /\ err[c] = "unique_link" => Failed(c, Conflict)

(***************************************************************************)
(* C4. A call whose subscription insert violates the uniqueness of          *)
(* (user, feed) returns a failure with code Conflict.                       *)
(***************************************************************************)
C4_RepeatSubscriptionIsConflict ==
  \A c \in Calls : Done(c) /\ err[c] = "unique_pair" => Failed(c, Conflict)

(***************************************************************************)
(* C5. On the existing-feed path, a lookup that finds more than one         *)
(* subscription row for (caller, feed) makes the call fail with Conflict    *)
(* and insert no row.                                                       *)
(***************************************************************************)
C5_DuplicateRowsAreConflict ==
  [][\A c \in Calls :
       /\ pc[c] = "findSubscription"
       /\ pc'[c] # "findSubscription"
       /\ err'[c] = "none"
       /\ Len(SelectSubscription(subs, <<uid[c], feed[c].id>>)) > 1
       => Failed(c, Conflict)' /\ subs' = subs]_vars

C7_TitleRequired ==
  \A c \in Calls :
    /\ Done(c) /\ Fetched(c)
    /\ IndicatesXml(response[c].contentType)
    /\ LacksUsableTitle(response[c].data)
    => /\ Failed(c, BadRequest)
       /\ discoverFeedId[c] \notin FeedIds

(***************************************************************************)
(* C8. Content-type gate, reject side: a response whose content type is not *)
(* an XML feed type yields a returned BadRequest whatever its body, decided *)
(* before the body is parsed.                                               *)
(***************************************************************************)
C8_ContentTypeRejected ==
  \A c \in Calls :
    Fetched(c) /\ ~IndicatesXml(response[c].contentType)
      => Failed(c, BadRequest) /\ err[c] = "none"

\* A titled RSS document declared as text/html was answered with BadRequest.
C8_Witness ==
  \E c \in Calls :
    /\ response[c] = Response(Header(TextHtml), RssTitled)
    /\ Failed(c, BadRequest)

(***************************************************************************)
(* C9. Content-type gate, accept side: a titled feed served as rss+xml,     *)
(* atom+xml or xml, under text/ or application/, is not rejected.           *)
(***************************************************************************)
C9_ContentTypeAccepted ==
  \A c \in Calls :
    /\ Fetched(c)
    /\ response[c].contentType \in
         {Header(t) : t \in {TextRssXml, ApplicationRssXml, TextAtomXml,
                             ApplicationAtomXml, ApplicationXml, TextXml}}
    /\ response[c].data \in TitledFeeds
    => ~Failed(c, BadRequest)

(***************************************************************************)
(* C10. Every call ends with a returned value, a success carrying a feed or *)
(* a failure carrying one code of BadRequest, Conflict, Unauthorized; a     *)
(* call under way can always take its next step, each step moves it on;     *)
(* and an unexpected error is answered with Unauthorized.                   *)
(***************************************************************************)
Rank(p) ==
  CASE p = "idle" -> 0
    [] p = "lookupFeed" -> 1
    [] p \in {"findSubscription", "fetch"} -> 2
    [] p \in {"insertExisting", "insertFeed"} -> 3
    [] p = "insertNew" -> 4
    [] p = "publish" -> 5
    [] OTHER -> 6

UnexpectedErrors == {"connect", "network", "parser", "store"}

C10_TypedResult ==
  \A c \in Calls :
    /\ Done(c) =>
         \/ Succeeded(c) /\ "id" \in DOMAIN returned[c].feed
         \/ \E code \in {BadRequest, Conflict, Unauthorized} : Failed(c, code)
    /\ Done(c) /\ err[c] \in UnexpectedErrors => Failed(c, Unauthorized)
    /\ pc[c] \notin {"idle", "done"} => ENABLED Step(c)

C10_AlwaysReturns ==
  /\ []C10_TypedResult
  /\ [][\A c \in Calls : pc'[c] # pc[c] => Rank(pc'[c]) > Rank(pc[c])]_vars

\* One call met a store error and another a body the parser rejects; both
\* were answered with Unauthorized.
C10_Witness ==
  \E c, d \in Calls :
    /\ Failed(c, Unauthorized) /\ err[c] = "store"
    /\ Failed(d, Unauthorized) /\ err[d] = "parser"

(***************************************************************************)
(* C11. A call that returns a failure has added no row to the Feed table    *)
(* nor to the Subscription table: the tables are as they would be without   *)
(* the call.                                                                *)
(***************************************************************************)
ReturnedFailure(c) ==
  Done(c) /\ returned[c].typename = "AddDiscoverFeedError"

C11_FailureChangesNothing ==
  \A c \in Calls : ReturnedFailure(c) => inserted[c] = 0

(***************************************************************************)
(* C12. Subscriptions are never lost: whenever a call on url by user has    *)
(* returned success, the store holds a Feed row with that link and a        *)
(* Subscription row joining the user to that Feed's id.                     *)
(***************************************************************************)
C12_SuccessMeansSubscribed ==
  \A c \in Calls :
    Succeeded(c) =>
      \E i \in 1..Len(feeds) :
        /\ feeds[i].link = url[c]
        /\ SubscriptionRows(uid[c], feeds[i].id) # {}

\* One call has succeeded on the new-feed path and another, racing with
\* others or not, on the existing-feed path.
C12_Witness ==
  \E c, d \in Calls :
    /\ Succeeded(c) /\ Fetched(c)
    /\ Succeeded(d) /\ ~Fetched(d)

(***************************************************************************)
(* C13. The same URL discovered by two different users, one after the       *)
(* other: once the first call has succeeded, the lookup of the second finds *)
(* the feed and goes on without a fetch; when the store then answers its    *)
(* queries the second call succeeds too, and the store holds one Feed row   *)
(* for the URL and two Subscription rows, one per user, on that Feed's id.  *)
(***************************************************************************)
TookExistingPath(c) == feed[c] # NoFeed /\ ~Fetched(c) /\ discoverFeedId[c] = 0

SubscriptionsTo(id) == {i \in 1..Len(subs) : subs[i].feed_id = id}

C13_BothSubscribed ==
  \A c, d \in Calls :
    /\ c # d /\ url[c] = url[d] /\ uid[c] # uid[d]
    /\ Succeeded(c) /\ Fetched(c)
    /\ Done(d) /\ TookExistingPath(d) /\ err[d] = "none"
    => /\ Succeeded(d)
       /\ Cardinality(FeedRowsWithLink(url[c])) = 1
       /\ \A i \in FeedRowsWithLink(url[c]) :
            /\ feeds[i].id = returned[c].feed.id
            /\ feeds[i].id = returned[d].feed.id
            /\ Cardinality(SubscriptionRows(uid[c], feeds[i].id)) = 1
            /\ Cardinality(SubscriptionRows(uid[d], feeds[i].id)) = 1
            /\ Cardinality(SubscriptionsTo(feeds[i].id)) = 2

C13_SecondFindsFeed ==
  \A c, d \in Calls :
    /\ c # d /\ url[c] = url[d] /\ uid[c] # uid[d]
    /\ Succeeded(c)
    /\ pc[d] = "lookupFeed" /\ pc'[d] # "lookupFeed" /\ err'[d] = "none"
    => pc'[d] = "findSubscription" /\ response'[d] = NoResponse

C13_SameUrlTwoUsers ==
  /\ []C13_BothSubscribed
  /\ [][C13_SecondFindsFeed]_vars

\* Two users' calls on one URL have both succeeded, the first by creating
\* the feed and the second on the feed it found.
C13_Witness ==
  \E c, d \in Calls :
    /\ c # d /\ url[c] = url[d] /\ uid[c] # uid[d]
    /\ Succeeded(c) /\ Fetched(c)
    /\ Succeeded(d) /\ TookExistingPath(d)
    /\ Len(feeds) = 1 /\ Len(subs) = 2

(***************************************************************************)
(* C14. The discovery event entityCreated(RSS_FEED, {feed, libraryItemId},  *)
(* owner = caller) is published exactly once by a call that succeeds on the *)
(* new-feed path, only after the Feed and the Subscription inserts of that  *)
(* call, and never by a call that returns a failure.                        *)
(***************************************************************************)
C14_EventOncePerDiscovery ==
  \A c \in Calls :
    /\ Len(events[c]) <= 1
    /\ Succeeded(c) /\ Fetched(c) =>
         events[c] = << [type |-> "RSS_FEED", feed |-> returned[c].feed,
                         libraryItemId |-> "NA", owner |-> uid[c]] >>
    /\ events[c] # <<>> =>
         /\ inserted[c] = 2
         /\ discoverFeedId[c] \in FeedIds
         /\ SubscriptionRows(uid[c], discoverFeedId[c]) # {}
    /\ ReturnedFailure(c) => events[c] = <<>>

\* One call has discovered a feed and published its event; another failed
\* and published none.
C14_Witness ==
  \E c, d \in Calls :
    /\ Succeeded(c) /\ Fetched(c) /\ Len(events[c]) = 1
    /\ ReturnedFailure(d) /\ events[d] = <<>>

(***************************************************************************)
(* C15. The publish is fire-and-forget: when publishing the event fails     *)
(* after the Feed and Subscription rows were inserted, the rows stay and    *)
(* the call still returns the success for the new feed.                     *)
(***************************************************************************)
C15_PublishFailureKeepsSuccess ==
  \A c \in Calls :
    Done(c) /\ err[c] = "publish" =>
      /\ discoverFeedId[c] \in FeedIds
      /\ SubscriptionRows(uid[c], discoverFeedId[c]) # {}
      /\ returned[c] = result[c]
      /\ Succeeded(c)

(***************************************************************************)
(* C16. Referential invariant: every Subscription row's feed id is the id   *)
(* of a row of the Feed table, and a Subscription row is only ever inserted *)
(* for a Feed row that is already there.                                    *)
(***************************************************************************)
C16_SubscriptionsReferToFeeds ==
  \A i \in 1..Len(subs) : subs[i].feed_id \in FeedIds

C16_FeedPrecedesSubscription ==
  Len(subs') > Len(subs) => subs'[Len(subs')].feed_id \in FeedIds

C16_ReferentialInvariant ==
  /\ []C16_SubscriptionsReferToFeeds
  /\ [][C16_FeedPrecedesSubscription]_vars

\* Two feeds have been discovered and each has its subscription.
C16_Witness ==
  /\ Len(feeds) = 2
  /\ \A i \in 1..Len(feeds) : SubscriptionsTo(feeds[i].id) # {}

(***************************************************************************)
(* C17. Format dispatch: the Feed created from a document with an rss or an *)
(* rdf:RDF root has type rss, also when a feed root is present as well;     *)
(* from a document with only a feed root it has type atom; a document with  *)
(* none of the three roots yields BadRequest. The Feed of every successful  *)
(* new-feed discovery has the requested URL as its link and the empty       *)
(* string as its description when the document has none.                    *)
(***************************************************************************)
HasRssRoot(d) == d.rss.k # "absent" \/ d.rdf.k # "absent"
HasAtomRoot(d) == d.feed.k # "absent"

\* The description element of the document's channel, or the subtitle of
\* its feed root.
DescriptionOf(d) ==
  LET root == IF d.rss.k # "absent" THEN d.rss
              ELSE IF d.rdf.k # "absent" THEN d.rdf ELSE d.feed
  IN  IF root.k # "element" THEN Absent
      ELSE IF HasRssRoot(d)
           THEN IF root.c.channel.k = "element"
                THEN root.c.channel.c.description ELSE Absent
           ELSE root.c.subtitle

CreatedFeedRows(c) == {i \in 1..Len(feeds) : feeds[i].id = discoverFeedId[c]}

C17_FormatDispatch ==
  \A c \in Calls :
    Fetched(c) /\ response[c].data.k = "xml" =>
      LET d == response[c].data
      IN  /\ \A i \in CreatedFeedRows(c) :
               /\ feeds[i].type = (IF HasRssRoot(d) THEN "rss" ELSE "atom")
               /\ HasRssRoot(d) \/ HasAtomRoot(d)
               /\ feeds[i].link = url[c]
               /\ DescriptionOf(d) = Absent => feeds[i].description = Str("")
          /\ ~HasRssRoot(d) /\ ~HasAtomRoot(d) => Failed(c, BadRequest)
          /\ Succeeded(c) =>
               /\ CreatedFeedRows(c) # {}
               /\ returned[c].feed.link = url[c]
               /\ returned[c].feed.type = (IF HasRssRoot(d) THEN "rss" ELSE "atom")
               /\ DescriptionOf(d) = Absent =>
                    returned[c].feed.description = Str("")

(***************************************************************************)
(* C18. Validation precedes persistence: a call that returns BadRequest has *)
(* issued no INSERT and published no event, and the step on which it        *)
(* returns leaves the Feed and Subscription tables as they are.             *)
(***************************************************************************)
C18_NothingInserted ==
  \A c \in Calls :
    Failed(c, BadRequest) =>
      /\ inserted[c] = 0
      /\ discoverFeedId[c] \notin FeedIds
      /\ events[c] = <<>>

C18_ReturnLeavesTables ==
  \A c \in Calls :
    ~Done(c) /\ Failed(c, BadRequest)' => feeds' = feeds /\ subs' = subs

C18_ValidationBeforePersistence ==
  /\ []C18_NothingInserted
  /\ [][C18_ReturnLeavesTables]_vars

\* A feed document with an empty title, served as XML, was answered with
\* BadRequest.
C18_Witness ==
  \E c \in Calls :
    /\ Failed(c, BadRequest)
    /\ response[c] = Response(Header(ApplicationXml), AtomEmptyTitle)
    /\ inserted[c] = 0

(***************************************************************************)
(* C19. On every success, on the new-feed path and on the existing-feed     *)
(* path, the feed carried by the result is the resolved Feed as stored: its *)
(* id, link, title, type and description equal those of the Feed row with   *)
(* link = the requested URL.                                                *)
(***************************************************************************)
FeedFields == {"id", "link", "title", "type", "description"}

CarriesRow(f, row) ==
  \A k \in FeedFields : k \in DOMAIN f /\ f[k] = row[k]

C19_ResultIsStoredFeed ==
  \A c \in Calls :
    Succeeded(c) =>
      \E i \in FeedRowsWithLink(url[c]) : CarriesRow(returned[c].feed, feeds[i])

(***************************************************************************)
(* C20. Within one call the acquired connection is released at most once,   *)
(* and no store query is issued on it after it has been released, on every  *)
(* path, the one included where the event publish throws after the new-feed *)
(* path has released the connection.                                        *)
(***************************************************************************)
QuerySteps ==
  {"lookupFeed", "findSubscription", "insertExisting", "insertFeed",
   "insertNew"}

C20_ReleasedAtMostOnce == \A c \in Calls : conn[c].releases <= 1

\* A call that leaves a query step has issued that step's query.
C20_NoQueryAfterRelease ==
  \A c \in Calls :
    pc[c] \in QuerySteps /\ pc'[c] # pc[c] =>
      conn[c].acquired /\ conn[c].releases = 0

C20_ReleaseDiscipline ==
  /\ []C20_ReleasedAtMostOnce
  /\ [][C20_NoQueryAfterRelease]_vars

\* The publish threw after the new-feed path had released the connection,
\* and the catch did not release it again.
C20_Witness ==
  \E c \in Calls :
    /\ Done(c) /\ err[c] = "publish"
    /\ inserted[c] = 2
    /\ conn[c].releases = 1

====
